---- MODULE Spec2Model ----
(***************************************************************************)
(* Minimal MeTTa engine of Bite-Piper: the atom model (metta_atoms.py),    *)
(* the rule store AtomSpace (space.py) and the interpreter with its three  *)
(* instructions eval, unify and chain (metta_interpreter.py).              *)
(*                                                                         *)
(* An atom is a record [kind, value]: kind is the Python class name and    *)
(* value is the attribute Atom.value (a string for Symbol and Variable, a  *)
(* tuple of atoms for Expression).  A raised Python exception is the       *)
(* record Raise(type); Python's None is the record None.                   *)
(***************************************************************************)
EXTENDS Integers, Sequences, FiniteSets, TLC

VARIABLES rules, bindings, call, ret

vars == <<rules, bindings, call, ret>>

(***************************************************************************)
(* Atom model                                                              *)
(***************************************************************************)
None == [kind |-> "None"]

Raise(type) == [kind |-> "Raise", value |-> type]

IsRaise(x) == x.kind = "Raise"

Symbol(name) == [kind |-> "Symbol", value |-> name]

\* Variable.__init__ prefixes the name with "$" unless it already starts so.
Variable(name) ==
    [kind |-> "Variable",
     value |-> IF Len(name) > 0 /\ Head(name) = "$" THEN name ELSE "$" \o name]

Expression(atoms) == [kind |-> "Expression", value |-> atoms]

is_expression(atom) == atom.kind = "Expression"

IsVariable(atom) == atom.kind = "Variable"

\* Expression.head: the first child, None for the empty Expression.
head(atom) == IF Len(atom.value) > 0 THEN atom.value[1] ELSE None

\* Expression.tail: the children after the first, [] if there are none.
tail(atom) == IF Len(atom.value) > 1 THEN Tail(atom.value) ELSE <<>>

NotReducible == Symbol("NotReducible")
Empty == Symbol("Empty")
TrueAtom == Symbol("True")
FalseAtom == Symbol("False")

\* Atom.__eq__: isinstance(other, Atom) and self.value == other.value.  The
\* class is not compared; a str never equals a tuple; tuples are compared by
\* length and then child by child with this same operation.
RECURSIVE AtomEq(_, _)
AtomEq(a, b) ==
    IF is_expression(a) /\ is_expression(b)
    THEN /\ Len(a.value) = Len(b.value)
         /\ \A i \in 1..Len(a.value) : AtomEq(a.value[i], b.value[i])
    ELSE IF is_expression(a) \/ is_expression(b)
    THEN FALSE
    ELSE a.value = b.value

\* Atom.__hash__: hash((class name, value)).  The hash of a tuple is made of
\* the hashes of its elements, so an Expression's hash is made of its
\* children's.  The hash function itself is taken to be free of collisions:
\* two hashes are equal exactly when class name and payload hashes are.
RECURSIVE AtomHash(_)
AtomHash(a) ==
    <<a.kind,
      IF is_expression(a)
      THEN [i \in 1..Len(a.value) |-> AtomHash(a.value[i])]
      ELSE a.value>>

\* Python's == on operands either of which may be None (an absent head).
PyEq(x, y) == IF x = None \/ y = None THEN x = y ELSE AtomEq(x, y)

(***************************************************************************)
(* AtomSpace: the ordered store of equality rules                          *)
(***************************************************************************)

\* A faulty add_atom condition: the length test left out.
IsRule_AnyLength(atom) ==
    /\ is_expression(atom)
    /\ PyEq(head(atom), Symbol("="))

\* The condition under which add_atom stores the atom.
IsRule(atom) ==
    /\ is_expression(atom)
    /\ Len(atom.value) = 3
    /\ PyEq(head(atom), Symbol("="))

\* A faulty add_atom: the rule put in front of the store.
add_atom_Prepend(rs, atom) ==
    IF IsRule(atom)
    THEN [rules |-> <<atom>> \o rs, ret |-> TRUE]
    ELSE [rules |-> rs, ret |-> FALSE]

\* add_atom: the store after the call and the value returned.
add_atom(rs, atom) ==
    IF IsRule(atom)
    THEN [rules |-> Append(rs, atom), ret |-> TRUE]
    ELSE [rules |-> rs, ret |-> FALSE]

\* A faulty match: whole patterns compared, also between Expressions.
RuleMatches_Exact(rule_head, pattern) == AtomEq(rule_head, pattern)

\* The test query applies to one rule: two Expressions are compared by head
\* only (and never by the elif); anything else by ==.
RuleMatches(rule_head, pattern) ==
    IF is_expression(rule_head) /\ is_expression(pattern)
    THEN PyEq(head(rule_head), head(pattern))
    ELSE AtomEq(rule_head, pattern)

\* The for loop of query from rule i on.
RECURSIVE QueryFrom(_, _, _)
QueryFrom(rs, i, pattern) ==
    IF i > Len(rs)
    THEN NotReducible
    ELSE IF RuleMatches(rs[i].value[2], pattern)
    THEN rs[i].value[3]
    ELSE QueryFrom(rs, i + 1, pattern)

query(rs, pattern) == QueryFrom(rs, 1, pattern)

(***************************************************************************)
(* Numbers as text.  A number is [kind, num, scale] and stands for         *)
(* num / 10^scale; kind is "int" or "float" (the Python type).  The texts  *)
(* parsed are Python's int() and float() literals over the characters      *)
(* space, sign, digit, underscore and point; exponent forms and inf/nan    *)
(* are not among the texts this model is given.  A float is held as an     *)
(* exact decimal, which is the value Python prints whenever the result is  *)
(* exactly representable in binary; the sign of a zero is not kept.        *)
(***************************************************************************)
IsDigit(c) == c \in {"0", "1", "2", "3", "4", "5", "6", "7", "8", "9"}

DigitVal(c) ==
    CASE c = "0" -> 0 [] c = "1" -> 1 [] c = "2" -> 2 [] c = "3" -> 3
      [] c = "4" -> 4 [] c = "5" -> 5 [] c = "6" -> 6 [] c = "7" -> 7
      [] c = "8" -> 8 [] c = "9" -> 9

DigitChar(d) == SubSeq("0123456789", d + 1, d + 1)

RECURSIVE Contains(_, _)
Contains(s, c) ==
    IF Len(s) = 0 THEN FALSE ELSE Head(s) = c \/ Contains(Tail(s), c)

RECURSIVE LStrip(_)
LStrip(s) == IF Len(s) > 0 /\ Head(s) = " " THEN LStrip(Tail(s)) ELSE s

RECURSIVE RStrip(_)
RStrip(s) ==
    IF Len(s) > 0 /\ SubSeq(s, Len(s), Len(s)) = " "
    THEN RStrip(SubSeq(s, 1, Len(s) - 1))
    ELSE s

Strip(s) == RStrip(LStrip(s))

SignOf(s) == IF Len(s) > 0 /\ Head(s) = "-" THEN -1 ELSE 1

Unsigned(s) == IF Len(s) > 0 /\ Head(s) \in {"+", "-"} THEN Tail(s) ELSE s

\* A digit part: one or more digits, single underscores only between digits.
RECURSIVE DigitPartOK(_, _)
DigitPartOK(s, afterDigit) ==
    IF Len(s) = 0 THEN afterDigit
    ELSE IF IsDigit(Head(s)) THEN DigitPartOK(Tail(s), TRUE)
    ELSE IF Head(s) = "_" THEN afterDigit /\ DigitPartOK(Tail(s), FALSE)
    ELSE FALSE

RECURSIVE DigitPartVal(_, _)
DigitPartVal(s, acc) ==
    IF Len(s) = 0 THEN acc
    ELSE IF Head(s) = "_" THEN DigitPartVal(Tail(s), acc)
    ELSE DigitPartVal(Tail(s), 10 * acc + DigitVal(Head(s)))

RECURSIVE DigitCount(_)
DigitCount(s) ==
    IF Len(s) = 0 THEN 0
    ELSE (IF Head(s) = "_" THEN 0 ELSE 1) + DigitCount(Tail(s))

RECURSIVE Before(_, _)
Before(s, c) ==
    IF Len(s) = 0 \/ Head(s) = c THEN "" ELSE Head(s) \o Before(Tail(s), c)

RECURSIVE After(_, _)
After(s, c) ==
    IF Len(s) = 0 THEN "" ELSE IF Head(s) = c THEN Tail(s) ELSE After(Tail(s), c)

RECURSIVE Pow10(_)
Pow10(k) == IF k = 0 THEN 1 ELSE 10 * Pow10(k - 1)

\* A faulty int(text): the sign dropped.
PyInt_Unsigned(s) ==
    LET t == Unsigned(Strip(s))
    IN  IF DigitPartOK(t, FALSE)
        THEN [kind |-> "int", num |-> DigitPartVal(t, 0), scale |-> 0]
        ELSE None

\* int(text): the number, or None where Python raises ValueError.
PyInt(s) ==
    LET t == Unsigned(Strip(s))
    IN  IF DigitPartOK(t, FALSE)
        THEN [kind |-> "int", num |-> SignOf(Strip(s)) * DigitPartVal(t, 0),
              scale |-> 0]
        ELSE None

\* float(text) for a text with a point: the number, or None on ValueError.
PyFloat(s) ==
    LET t  == Unsigned(Strip(s))
        ip == Before(t, ".")
        fp == After(t, ".")
    IN  IF /\ ip = "" \/ DigitPartOK(ip, FALSE)
           /\ fp = "" \/ DigitPartOK(fp, FALSE)
           /\ ~(ip = "" /\ fp = "")
        THEN [kind |-> "float",
              num |-> SignOf(Strip(s))
                        * (DigitPartVal(ip, 0) * Pow10(DigitCount(fp))
                           + DigitPartVal(fp, 0)),
              scale |-> DigitCount(fp)]
        ELSE None

RECURSIVE NatStr(_)
NatStr(n) ==
    IF n < 10 THEN DigitChar(n) ELSE NatStr(n \div 10) \o DigitChar(n % 10)

\* The decimal digits of f, zero-padded on the left to width k.
RECURSIVE PadStr(_, _)
PadStr(f, k) ==
    IF k = 0 THEN "" ELSE PadStr(f \div 10, k - 1) \o DigitChar(f % 10)

\* The fraction digits of f / 10^k, trailing zeros dropped, at least one kept.
RECURSIVE FracStr(_, _)
FracStr(f, k) ==
    IF k > 1 /\ f % 10 = 0 THEN FracStr(f \div 10, k - 1) ELSE PadStr(f, k)

\* str(number).
PyStr(n) ==
    LET a == IF n.num < 0 THEN -n.num ELSE n.num
        sign == IF n.num < 0 THEN "-" ELSE ""
    IN  IF n.kind = "int"
        THEN sign \o NatStr(a)
        ELSE sign \o NatStr(a \div Pow10(n.scale)) \o "."
               \o (IF n.scale = 0 THEN "0"
                   ELSE FracStr(a % Pow10(n.scale), n.scale))

MaxOf(x, y) == IF x > y THEN x ELSE y

\* The numerator of n at scale s >= n.scale.
NumAt(n, s) == n.num * Pow10(s - n.scale)

(***************************************************************************)
(* MeTTaInterpreter: grounded functions and eval                           *)
(***************************************************************************)

\* _get_number: the number, None where ValueError or AttributeError is
\* caught, or the TypeError that int() and float() raise on a tuple and that
\* the except clause does not catch.
get_number(atom) ==
    IF is_expression(atom) THEN Raise("TypeError")
    ELSE IF Contains(atom.value, ".") THEN PyFloat(atom.value)
    ELSE PyInt(atom.value)

\* The lambdas handed to _arithmetic: a + b and a - b.
ArithOp(name, n1, n2) ==
    LET s == MaxOf(n1.scale, n2.scale)
    IN  [kind  |-> IF n1.kind = "float" \/ n2.kind = "float"
                   THEN "float" ELSE "int",
         num   |-> IF name = "+" THEN NumAt(n1, s) + NumAt(n2, s)
                   ELSE NumAt(n1, s) - NumAt(n2, s),
         scale |-> s]

\* The lambdas handed to _comparison: a < b and a == b.
CompareOp(name, n1, n2) ==
    LET s == MaxOf(n1.scale, n2.scale)
    IN  IF name = "<" THEN NumAt(n1, s) < NumAt(n2, s)
        ELSE NumAt(n1, s) = NumAt(n2, s)

arithmetic(args, name) ==
    IF Len(args) # 2 THEN NotReducible
    ELSE LET n1 == get_number(args[1])
             n2 == get_number(args[2])
         IN  IF IsRaise(n1) THEN n1
             ELSE IF IsRaise(n2) THEN n2
             ELSE IF n1 = None \/ n2 = None THEN NotReducible
             ELSE Symbol(PyStr(ArithOp(name, n1, n2)))

comparison(args, name) ==
    IF Len(args) # 2 THEN NotReducible
    ELSE LET n1 == get_number(args[1])
             n2 == get_number(args[2])
         IN  IF IsRaise(n1) THEN n1
             ELSE IF IsRaise(n2) THEN n2
             ELSE IF n1 = None \/ n2 = None THEN NotReducible
             ELSE IF CompareOp(name, n1, n2) THEN TrueAtom ELSE FalseAtom

\* The keys of the dict grounded_functions.  A dict is probed by
\* hash((class name, value)) and then by ==, so only a Symbol finds a key.
GroundedNames == {"+", "-", "<", "=="}

\* A faulty table: the comparison functions not registered.
InGrounded_ArithOnly(h) == h.kind = "Symbol" /\ h.value \in {"+", "-"}

InGrounded(h) == h.kind = "Symbol" /\ h.value \in GroundedNames

grounded_functions(name, args) ==
    IF name \in {"+", "-"} THEN arithmetic(args, name)
    ELSE comparison(args, name)

\* A faulty eval: the empty Expression forwarded to query.
eval_NoEmptyCheck(rs, arg) ==
    IF is_expression(arg) /\ Len(arg.value) > 0 /\ InGrounded(head(arg))
    THEN grounded_functions(head(arg).value, tail(arg))
    ELSE query(rs, arg)

\* eval: an atom, or the exception a grounded function lets through.
eval(rs, arg) ==
    IF is_expression(arg)
    THEN IF Len(arg.value) = 0 THEN NotReducible
         ELSE IF InGrounded(head(arg))
         THEN grounded_functions(head(arg).value, tail(arg))
         ELSE LET result == query(rs, arg)
              IN  IF ~AtomEq(result, NotReducible) THEN result
                  ELSE NotReducible
    ELSE LET result == query(rs, arg)
         IN  IF ~AtomEq(result, NotReducible) THEN result ELSE NotReducible

(***************************************************************************)
(* unify and chain.  The binding table is a function from the bound names  *)
(* to atoms; both return the result together with the table they leave.    *)
(***************************************************************************)
NoBindings == [n \in {} |-> None]

\* self.bindings[name] = atom
Bind(bs, name, atom) ==
    [n \in DOMAIN bs \cup {name} |-> IF n = name THEN atom ELSE bs[n]]

\* A faulty unify: a Variable on either side is bound.
unify_Symmetric(bs, arg1, arg2, unified_result, not_unified_result) ==
    IF AtomEq(arg1, arg2)
    THEN [ret |-> unified_result, bindings |-> bs]
    ELSE IF /\ is_expression(arg1) /\ is_expression(arg2)
            /\ PyEq(head(arg1), head(arg2))
    THEN [ret |-> unified_result, bindings |-> bs]
    ELSE IF IsVariable(arg1)
    THEN [ret |-> unified_result, bindings |-> Bind(bs, arg1.value, arg2)]
    ELSE IF IsVariable(arg2)
    THEN [ret |-> unified_result, bindings |-> Bind(bs, arg2.value, arg1)]
    ELSE [ret |-> not_unified_result, bindings |-> bs]

\* A faulty unify: a Variable first argument is bound before anything is
\* compared.
unify_BindFirst(bs, arg1, arg2, unified_result, not_unified_result) ==
    IF IsVariable(arg1)
    THEN [ret |-> unified_result, bindings |-> Bind(bs, arg1.value, arg2)]
    ELSE IF AtomEq(arg1, arg2)
    THEN [ret |-> unified_result, bindings |-> bs]
    ELSE IF /\ is_expression(arg1) /\ is_expression(arg2)
            /\ PyEq(head(arg1), head(arg2))
    THEN [ret |-> unified_result, bindings |-> bs]
    ELSE [ret |-> not_unified_result, bindings |-> bs]

unify(bs, arg1, arg2, unified_result, not_unified_result) ==
    IF AtomEq(arg1, arg2)
    THEN [ret |-> unified_result, bindings |-> bs]
    ELSE IF /\ is_expression(arg1) /\ is_expression(arg2)
            /\ PyEq(head(arg1), head(arg2))
    THEN [ret |-> unified_result, bindings |-> bs]
    ELSE IF IsVariable(arg1)
    THEN [ret |-> unified_result, bindings |-> Bind(bs, arg1.value, arg2)]
    ELSE [ret |-> not_unified_result, bindings |-> bs]

\* One pass of substitution, as substitute makes it.
RECURSIVE substitute_Pass(_, _)
substitute_Pass(atom, bs) ==
    IF IsVariable(atom) /\ atom.value \in DOMAIN bs
    THEN bs[atom.value]
    ELSE IF is_expression(atom)
    THEN Expression([i \in 1..Len(atom.value) |->
                        substitute_Pass(atom.value[i], bs)])
    ELSE atom

\* A faulty substitute: the atoms put in are rewritten once more.
substitute_Twice(atom, bs) == substitute_Pass(substitute_Pass(atom, bs), bs)

\* A faulty substitute: the target of a chain Expression is left as written.
substitute_SkipTarget(atom, bs) ==
    IF IsVariable(atom) /\ atom.value \in DOMAIN bs
    THEN bs[atom.value]
    ELSE IF is_expression(atom)
    THEN Expression([i \in 1..Len(atom.value) |->
                        IF /\ i = 3
                           /\ Len(atom.value) = 4
                           /\ PyEq(head(atom), Symbol("chain"))
                        THEN atom.value[i]
                        ELSE substitute_Pass(atom.value[i], bs)])
    ELSE atom

\* The nested function substitute of chain.
RECURSIVE substitute(_, _)
substitute(atom, bs) ==
    IF IsVariable(atom) /\ atom.value \in DOMAIN bs
    THEN bs[atom.value]
    ELSE IF is_expression(atom)
    THEN Expression([i \in 1..Len(atom.value) |-> substitute(atom.value[i], bs)])
    ELSE atom

\* The depth of nested chain calls at which the Python runtime raises
\* RecursionError (the interpreter's frame limit, scaled down).
RecursionLimit == 6

\* A faulty step 1: an instruction that is no eval or unify is evaluated.
ChainExec_EvalAll(rs, bs, arg) ==
    IF is_expression(arg)
    THEN IF Len(arg.value) = 0
         THEN [ret |-> NotReducible, bindings |-> bs]
         ELSE IF PyEq(head(arg), Symbol("eval")) /\ Len(tail(arg)) > 0
         THEN [ret |-> eval(rs, tail(arg)[1]), bindings |-> bs]
         ELSE IF PyEq(head(arg), Symbol("unify")) /\ Len(tail(arg)) >= 4
         THEN IF Len(tail(arg)) > 4
              THEN [ret |-> Raise("TypeError"), bindings |-> bs]
              ELSE unify(bs, tail(arg)[1], tail(arg)[2], tail(arg)[3],
                         tail(arg)[4])
         ELSE [ret |-> eval(rs, arg), bindings |-> bs]
    ELSE [ret |-> eval(rs, arg), bindings |-> bs]

\* Step 1 of chain: execute the instruction.  unify(*arg.tail) with more than
\* four tail elements is a call with too many arguments.
ChainExec(rs, bs, arg) ==
    IF is_expression(arg)
    THEN IF Len(arg.value) = 0
         THEN [ret |-> NotReducible, bindings |-> bs]
         ELSE IF PyEq(head(arg), Symbol("eval")) /\ Len(tail(arg)) > 0
         THEN [ret |-> eval(rs, tail(arg)[1]), bindings |-> bs]
         ELSE IF PyEq(head(arg), Symbol("unify")) /\ Len(tail(arg)) >= 4
         THEN IF Len(tail(arg)) > 4
              THEN [ret |-> Raise("TypeError"), bindings |-> bs]
              ELSE unify(bs, tail(arg)[1], tail(arg)[2], tail(arg)[3],
                         tail(arg)[4])
         ELSE [ret |-> arg, bindings |-> bs]
    ELSE [ret |-> arg, bindings |-> bs]

\* A faulty step 2: a name that is already bound keeps its binding.
ChainBind_KeepPrior(bs, var, exec_result) ==
    IF var.value \in DOMAIN bs THEN bs ELSE Bind(bs, var.value, exec_result)

\* Step 2 of chain: self.bindings[var.value] = exec_result.
ChainBind(bs, var, exec_result) == Bind(bs, var.value, exec_result)

\* A faulty chain: the continuation is substituted with the binding of the
\* call's own target only.
ChainSteps_OwnTarget(rs, bs, arg, var, result_atom) ==
    LET exec == ChainExec(rs, bs, arg)
        b2   == ChainBind(exec.bindings, var, exec.ret)
    IN  IF IsRaise(exec.ret)
        THEN [exec_result |-> exec.ret, bindings |-> exec.bindings,
              substituted_result |-> None]
        ELSE [exec_result |-> exec.ret, bindings |-> b2,
              substituted_result |->
                  substitute(result_atom,
                             Bind(NoBindings, var.value, exec.ret))]

\* Steps 1 to 3 of one chain invocation: the local exec_result, the table
\* step 1 leaves, the table at the call of substitute and the local
\* substituted_result.  An exception in step 1 leaves the later ones unset.
ChainSteps(rs, bs, arg, var, result_atom) ==
    LET exec == ChainExec(rs, bs, arg)
        b2   == ChainBind(exec.bindings, var, exec.ret)
    IN  IF IsRaise(exec.ret)
        THEN [exec_result |-> exec.ret, bindings |-> exec.bindings,
              substituted_result |-> None]
        ELSE [exec_result |-> exec.ret, bindings |-> b2,
              substituted_result |-> substitute(result_atom, b2)]

\* The invocations of chain that one call makes, the outermost first, each
\* with its three arguments: the call itself and, while step 4 finds a chain
\* continuation, the call it makes.
RECURSIVE ChainInvocations(_, _, _, _, _, _)
ChainInvocations(rs, bs, arg, var, result_atom, d) ==
    IF d > RecursionLimit
    THEN <<>>
    ELSE <<[arg |-> arg, var |-> var, result_atom |-> result_atom]>> \o
         (IF ~IsVariable(var)
          THEN <<>>
          ELSE
            CHOOSE r \in
                {IF IsRaise(st.exec_result)
                 THEN <<>>
                 ELSE IF /\ is_expression(st.substituted_result)
                         /\ PyEq(head(st.substituted_result), Symbol("chain"))
                         /\ Len(tail(st.substituted_result)) = 3
                 THEN ChainInvocations(rs, st.bindings,
                                       tail(st.substituted_result)[1],
                                       tail(st.substituted_result)[2],
                                       tail(st.substituted_result)[3], d + 1)
                 ELSE <<>> :
                    st \in {ChainSteps(rs, bs, arg, var, result_atom)}} : TRUE)

RECURSIVE chain(_, _, _, _, _, _)

\* A faulty step 4: a continuation that is no instruction is evaluated too.
ChainTail_EvalAll(rs, bs, sub, d) ==
    IF is_expression(sub) /\ PyEq(head(sub), Symbol("eval"))
    THEN IF Len(tail(sub)) = 0
         THEN [ret |-> Raise("IndexError"), bindings |-> bs]
         ELSE [ret |-> eval(rs, tail(sub)[1]), bindings |-> bs]
    ELSE IF is_expression(sub) /\ PyEq(head(sub), Symbol("chain"))
    THEN IF Len(tail(sub)) # 3
         THEN [ret |-> Raise("TypeError"), bindings |-> bs]
         ELSE chain(rs, bs, tail(sub)[1], tail(sub)[2], tail(sub)[3], d + 1)
    ELSE [ret |-> eval(rs, sub), bindings |-> bs]

\* Step 4 of chain on the substituted continuation.  eval(tail[0]) on an
\* empty tail is an IndexError, chain(*tail) on a tail of length other than 3
\* a TypeError.
ChainTail(rs, bs, sub, d) ==
    IF is_expression(sub) /\ PyEq(head(sub), Symbol("eval"))
    THEN IF Len(tail(sub)) = 0
         THEN [ret |-> Raise("IndexError"), bindings |-> bs]
         ELSE [ret |-> eval(rs, tail(sub)[1]), bindings |-> bs]
    ELSE IF is_expression(sub) /\ PyEq(head(sub), Symbol("chain"))
    THEN IF Len(tail(sub)) # 3
         THEN [ret |-> Raise("TypeError"), bindings |-> bs]
         ELSE chain(rs, bs, tail(sub)[1], tail(sub)[2], tail(sub)[3], d + 1)
    ELSE [ret |-> sub, bindings |-> bs]

\* A faulty chain: the target is tested after the instruction has run.
chain_LateCheck(rs, bs, arg, var, result_atom, d) ==
    IF d > RecursionLimit
    THEN [ret |-> Raise("RecursionError"), bindings |-> bs]
    ELSE IF ~IsVariable(var)
    THEN [ret |-> Raise("TypeError"), bindings |-> ChainExec(rs, bs, arg).bindings]
    ELSE
      CHOOSE r \in
          {IF IsRaise(st.exec_result)
           THEN [ret |-> st.exec_result, bindings |-> st.bindings]
           ELSE ChainTail(rs, st.bindings, st.substituted_result, d) :
              st \in {ChainSteps(rs, bs, arg, var, result_atom)}} : TRUE

\* chain at nesting depth d: the test of the target, then steps 1 to 4.  The
\* outcome is chosen from a singleton set so that the locals st of steps 1 to
\* 3 are computed once per invocation.
chain(rs, bs, arg, var, result_atom, d) ==
    IF d > RecursionLimit
    THEN [ret |-> Raise("RecursionError"), bindings |-> bs]
    ELSE IF ~IsVariable(var)
    THEN [ret |-> Raise("TypeError"), bindings |-> bs]
    ELSE
      CHOOSE r \in
          {IF IsRaise(st.exec_result)
           THEN [ret |-> st.exec_result, bindings |-> st.bindings]
           ELSE ChainTail(rs, st.bindings, st.substituted_result, d) :
              st \in {ChainSteps(rs, bs, arg, var, result_atom)}} : TRUE

\* The locals of the outermost chain invocation, None where never assigned.
ChainLocals(rs, bs, arg, var, result_atom) ==
    IF IsVariable(var)
    THEN ChainSteps(rs, bs, arg, var, result_atom)
    ELSE [exec_result |-> None, bindings |-> bs, substituted_result |-> None]

(***************************************************************************)
(* The state machine: one AtomSpace and one MeTTaInterpreter over it.      *)
(* call records the last operation and its arguments (for chain also the  *)
(* locals of the outermost invocation), ret what it returned or raised.    *)
(***************************************************************************)
\* The largest number of rules a generic add_atom call may bring the store to.
MaxRules == 2

Init ==
    /\ rules = <<>>
    /\ bindings = NoBindings
    /\ call = [op |-> "init", args |-> <<>>]
    /\ ret = None

AddAtom(atom) ==
    /\ IsRule(atom) => Len(rules) < MaxRules
    /\ rules' = add_atom(rules, atom).rules
    /\ ret' = add_atom(rules, atom).ret
    /\ call' = [op |-> "add_atom", args |-> <<atom>>]
    /\ UNCHANGED bindings

Query(pattern) ==
    /\ ret' = query(rules, pattern)
    /\ call' = [op |-> "query", args |-> <<pattern>>]
    /\ UNCHANGED <<rules, bindings>>

\* A faulty eval: the rules that answer the atom are consumed.
Eval_Consume(arg) ==
    /\ ret' = eval(rules, arg)
    /\ call' = [op |-> "eval", args |-> <<arg>>]
    /\ rules' = SelectSeq(rules, LAMBDA r : ~RuleMatches(r.value[2], arg))
    /\ UNCHANGED bindings

\* A faulty eval: the Variables of the body returned are replaced by their
\* bindings.
Eval_Instantiate(arg) ==
    /\ ret' = IF IsRaise(eval(rules, arg))
              THEN eval(rules, arg)
              ELSE substitute(eval(rules, arg), bindings)
    /\ call' = [op |-> "eval", args |-> <<arg>>]
    /\ UNCHANGED <<rules, bindings>>

Eval(arg) ==
    /\ ret' = eval(rules, arg)
    /\ call' = [op |-> "eval", args |-> <<arg>>]
    /\ UNCHANGED <<rules, bindings>>

Unify(arg1, arg2, s, f) ==
    /\ ret' = unify(bindings, arg1, arg2, s, f).ret
    /\ bindings' = unify(bindings, arg1, arg2, s, f).bindings
    /\ call' = [op |-> "unify", args |-> <<arg1, arg2, s, f>>]
    /\ UNCHANGED rules

\* A faulty chain: a call that raises clears the table.
Chain_ClearOnError(arg, var, result_atom) ==
    /\ \E r \in {chain(rules, bindings, arg, var, result_atom, 1)} :
          /\ ret' = r.ret
          /\ bindings' = IF IsRaise(r.ret) THEN NoBindings ELSE r.bindings
    /\ call' = [op |-> "chain", args |-> <<arg, var, result_atom>>,
                locals |-> ChainLocals(rules, bindings, arg, var, result_atom)]
    /\ UNCHANGED rules

Chain(arg, var, result_atom) ==
    /\ \E r \in {chain(rules, bindings, arg, var, result_atom, 1)} :
          /\ ret' = r.ret
          /\ bindings' = r.bindings
    /\ call' = [op |-> "chain", args |-> <<arg, var, result_atom>>,
                locals |-> ChainLocals(rules, bindings, arg, var, result_atom)]
    /\ UNCHANGED rules

(***************************************************************************)
(* The rule store on its own: add_atom and query over a vocabulary taken   *)
(* from the application's rules, with a Symbol and a Variable of the same  *)
(* text, the empty Expression and a bare Symbol among the patterns.        *)
(***************************************************************************)
Rule(pattern, body) == Expression(<<Symbol("="), pattern, body>>)

AllocationWeight(level) ==
    Expression(<<Symbol("allocation_weight"), Symbol(level)>>)

Threshold(level) == Expression(<<Symbol("threshold"), Symbol(level)>>)

KBPatterns ==
    {AllocationWeight("CRITICAL"), AllocationWeight("HIGH"),
     AllocationWeight("LOW"), Threshold("CRITICAL"), Expression(<<>>),
     Symbol("$x"), Variable("x"), Symbol("CRITICAL")}

KBBodies == {Symbol("0.40"), Symbol("0.30")}

KBRules == {Rule(p, b) : p \in KBPatterns, b \in KBBodies}

\* Atoms that are not equality rules.
KBRejected ==
    {Symbol("="), Variable("x"), Expression(<<>>),
     Expression(<<Symbol("="), Symbol("CRITICAL")>>),
     Expression(<<Symbol("="), Symbol("CRITICAL"), Symbol("0.40"),
                  Symbol("0.30")>>),
     Expression(<<Symbol("allocation_weight"), Symbol("CRITICAL"),
                  Symbol("0.40")>>),
     Expression(<<Variable("="), Symbol("CRITICAL"), Symbol("0.40")>>),
     Expression(<<Expression(<<Symbol("=")>>), Symbol("CRITICAL"),
                  Symbol("0.40")>>)}

AddAtomKB == \E atom \in KBRules \cup KBRejected : AddAtom(atom)

QueryKB == \E pattern \in KBPatterns : Query(pattern)

NextKB == AddAtomKB \/ QueryKB

SpecKB == Init /\ [][NextKB]_vars

(***************************************************************************)
(* Claims about the rule store                                             *)
(***************************************************************************)

\* The match of C1: both Expressions with equal heads, or not both
\* Expressions and equal atoms (equality being the engine's ==).
MatchesC1(r, p) ==
    \/ is_expression(r) /\ is_expression(p) /\ PyEq(head(r), head(p))
    \/ ~(is_expression(r) /\ is_expression(p)) /\ AtomEq(r, p)

MatchingC1(p) == {i \in 1..Len(rules) : MatchesC1(rules[i].value[2], p)}

\* C1: query(p) returns the body of the first rule in insertion order whose
\* pattern matches p (head-only between Expressions, equality otherwise), and
\* NotReducible if no stored rule matches.
C1_QueryFirstMatch ==
    call.op = "query" =>
        LET M == MatchingC1(call.args[1])
        IN  IF M = {} THEN ret = NotReducible
            ELSE \E i \in M : /\ \A j \in M : i <= j
                              /\ ret = rules[i].value[3]

\* A query that two rules with different bodies match, answered by the first.
C1_Witness ==
    /\ call.op = "query"
    /\ Len(rules) = 2
    /\ MatchingC1(call.args[1]) = {1, 2}
    /\ rules[1].value[3] # rules[2].value[3]
    /\ ret = rules[1].value[3]

\* C2: with the rules (= (allocation_weight CRITICAL) 0.40) and
\* (= (allocation_weight HIGH) 0.30) stored in that order,
\* query((allocation_weight CRITICAL)) is Symbol "0.40" and
\* query((allocation_weight LOW)) is NotReducible.
C2_AllocationWeightExample ==
    (/\ call.op = "query"
     /\ rules = <<Rule(AllocationWeight("CRITICAL"), Symbol("0.40")),
                  Rule(AllocationWeight("HIGH"), Symbol("0.30"))>>)
    => /\ call.args[1] = AllocationWeight("CRITICAL") => ret = Symbol("0.40")
       /\ call.args[1] = AllocationWeight("LOW") => ret = NotReducible

\* The shape C4 requires of a rule: an Expression of length 3 whose head is
\* the Symbol "=".
ShapeC4(atom) ==
    /\ atom.kind = "Expression"
    /\ Len(atom.value) = 3
    /\ atom.value[1] = Symbol("=")

\* C4: add_atom returns false and leaves the stored rule sequence unchanged
\* for every atom that is not an Expression of length 3 with head Symbol "=";
\* it returns true only for such an Expression.
C4_AddAtomRejects ==
    [][call'.op = "add_atom" =>
          /\ ~ShapeC4(call'.args[1]) => (ret' = FALSE /\ rules' = rules)
          /\ ret' = TRUE => ShapeC4(call'.args[1])]_vars

\* A malformed atom was rejected while the store held rules.
C4_Witness ==
    /\ call.op = "add_atom"
    /\ ~ShapeC4(call.args[1])
    /\ ret = FALSE
    /\ Len(rules) = MaxRules

(***************************************************************************)
(* BitePiperApp: the knowledge _load_knowledge puts into a fresh store,    *)
(* and the queries the application evaluates against it.                   *)
(***************************************************************************)
RegionA == Symbol("RegionA")
RegionB == Symbol("RegionB")
HouseholdIncomePerCapita == Symbol("HouseholdIncomePerCapita")
PovertyRate == Symbol("PovertyRate")
WealthIndex == Symbol("WealthIndex")
PPI == Symbol("PPI")
ConsumptionExpenditure == Symbol("ConsumptionExpenditure")
LiteracyRate == Symbol("LiteracyRate")
RegionData == Symbol("RegionData")
FundingPriority == Symbol("FundingPriority")

Indicator(name, text) == Expression(<<name, Symbol(text)>>)

data_a_tuple ==
    Expression(<<Indicator(HouseholdIncomePerCapita, "1500"),
                 Indicator(PovertyRate, "60"),
                 Indicator(WealthIndex, "25"),
                 Indicator(PPI, "75"),
                 Indicator(ConsumptionExpenditure, "1200"),
                 Indicator(LiteracyRate, "45")>>)

data_b_tuple ==
    Expression(<<Indicator(HouseholdIncomePerCapita, "5000"),
                 Indicator(PovertyRate, "30"),
                 Indicator(WealthIndex, "65"),
                 Indicator(PPI, "35"),
                 Indicator(ConsumptionExpenditure, "4200"),
                 Indicator(LiteracyRate, "85")>>)

RegionDataOf(region) == Expression(<<RegionData, region>>)

\* The atoms _load_knowledge hands to add_atom, in order.
AppAtoms ==
    <<Rule(RegionDataOf(RegionA), data_a_tuple),
      Rule(RegionDataOf(RegionB), data_b_tuple),
      Rule(Expression(<<Symbol("priority"), Variable("data")>>),
           Expression(<<FundingPriority, Variable("data")>>)),
      Rule(Threshold("CRITICAL"), Symbol("0.70")),
      Rule(Threshold("HIGH"), Symbol("0.50")),
      Rule(Threshold("MEDIUM"), Symbol("0.30")),
      Rule(Threshold("LOW"), Symbol("0.00")),
      Rule(AllocationWeight("CRITICAL"), Symbol("0.40")),
      Rule(AllocationWeight("HIGH"), Symbol("0.30")),
      Rule(AllocationWeight("MEDIUM"), Symbol("0.20")),
      Rule(AllocationWeight("LOW"), Symbol("0.10"))>>

RECURSIVE AddAll(_, _)
AddAll(rs, atoms) ==
    IF Len(atoms) = 0 THEN rs
    ELSE AddAll(add_atom(rs, Head(atoms)).rules, Tail(atoms))

\* BitePiperApp.__init__: a fresh store and interpreter, then _load_knowledge.
LoadKnowledge ==
    /\ call.op = "init"
    /\ rules' = AddAll(rules, AppAtoms)
    /\ call' = [op |-> "load_knowledge", args |-> <<>>]
    /\ ret' = None
    /\ UNCHANGED bindings

Levels == {"CRITICAL", "HIGH", "MEDIUM", "LOW"}

\* The queries of allocate_funding, example_metta_rule_query and
\* determine_priority.
AppQueries ==
    {AllocationWeight(l) : l \in Levels} \cup {Threshold(l) : l \in Levels}
      \cup {RegionDataOf(RegionA), RegionDataOf(RegionB),
            Expression(<<Symbol("priority"), data_a_tuple>>)}

\* Rules in the application's vocabulary, added one at a time.
AppLikeRules ==
    {Rule(AllocationWeight(l), b) : l \in {"CRITICAL", "HIGH"}, b \in KBBodies}
      \cup {Rule(Threshold(l), b) : l \in {"CRITICAL", "HIGH"}, b \in KBBodies}

AddAtomApp == \E atom \in AppLikeRules : AddAtom(atom)

EvalApp == \E arg \in AppQueries : Eval(arg)

NextApp == LoadKnowledge \/ AddAtomApp \/ EvalApp

SpecApp == Init /\ [][NextApp]_vars

\* C3: for every stored rule (= p b) whose pattern p equals no other stored
\* pattern, evaluate(p) returns that rule's own body b; after BitePiperApp has
\* loaded its knowledge, evaluate((allocation_weight L)) is 0.40, 0.30, 0.20,
\* 0.10 for CRITICAL, HIGH, MEDIUM, LOW, evaluate((threshold L)) is the
\* threshold stored for L and evaluate((RegionData R)) the tuple stored for R.
C3_EvalReturnsOwnBody ==
    call.op = "eval" =>
        /\ \A i \in 1..Len(rules) :
              (/\ call.args[1] = rules[i].value[2]
               /\ \A j \in 1..Len(rules) :
                     j # i => rules[j].value[2] # rules[i].value[2])
              => ret = rules[i].value[3]
        /\ rules = AddAll(<<>>, AppAtoms) =>
              /\ call.args[1] = AllocationWeight("CRITICAL") => ret = Symbol("0.40")
              /\ call.args[1] = AllocationWeight("HIGH") => ret = Symbol("0.30")
              /\ call.args[1] = AllocationWeight("MEDIUM") => ret = Symbol("0.20")
              /\ call.args[1] = AllocationWeight("LOW") => ret = Symbol("0.10")
              /\ call.args[1] = Threshold("CRITICAL") => ret = Symbol("0.70")
              /\ call.args[1] = Threshold("HIGH") => ret = Symbol("0.50")
              /\ call.args[1] = Threshold("MEDIUM") => ret = Symbol("0.30")
              /\ call.args[1] = Threshold("LOW") => ret = Symbol("0.00")
              /\ call.args[1] = RegionDataOf(RegionA) => ret = data_a_tuple
              /\ call.args[1] = RegionDataOf(RegionB) => ret = data_b_tuple

(***************************************************************************)
(* eval over stores that also hold rules whose pattern is the empty        *)
(* Expression or has a grounded head.                                      *)
(***************************************************************************)
Call(name, args) == Expression(<<Symbol(name)>> \o args)

EvalRules ==
    {Rule(Expression(<<>>), Symbol("0.40")),
     Rule(Call("+", <<Symbol("2"), Symbol("x")>>), Symbol("0.40")),
     Rule(Call("<", <<Symbol("x"), Symbol("2")>>), Symbol("0.40")),
     Rule(AllocationWeight("CRITICAL"), Symbol("0.30")),
     Rule(Symbol("CRITICAL"), Symbol("NotReducible"))}

\* Arguments a grounded function is given, numeric and not.
GroundedArgs ==
    {Symbol("2"), Symbol("2.5"), Symbol("x"), Variable("x"),
     Expression(<<>>), Expression(<<Symbol("1")>>)}

EvalGrounded ==
    {Call(o, <<a, b>>) : o \in GroundedNames, a \in GroundedArgs,
                         b \in GroundedArgs}
      \cup {Call(o, <<>>) : o \in GroundedNames}
      \cup {Call(o, <<Symbol("2")>>) : o \in GroundedNames}
      \cup {Call(o, <<Symbol("2"), Symbol("2.5"), Symbol("2")>>) :
               o \in GroundedNames}

EvalOthers ==
    {Expression(<<>>), Symbol("CRITICAL"), Symbol("$x"), Variable("x"),
     Symbol("+"), AllocationWeight("CRITICAL"), AllocationWeight("HIGH"),
     AllocationWeight("LOW"), Threshold("CRITICAL"),
     Expression(<<Variable("+"), Symbol("2"), Symbol("2")>>),
     Expression(<<Call("+", <<>>), Symbol("2"), Symbol("2")>>)}

AddAtomEval == \E atom \in EvalRules : AddAtom(atom)

EvalGroundedCall == \E arg \in EvalGrounded : Eval(arg)

EvalOtherCall == \E arg \in EvalOthers : Eval(arg)

NextEval == AddAtomEval \/ EvalGroundedCall \/ EvalOtherCall

SpecEval == Init /\ [][NextEval]_vars

\* An Expression whose head is one of the Symbols +, -, < and ==.
HasGroundedHead(a) ==
    /\ a.kind = "Expression"
    /\ Len(a.value) > 0
    /\ a.value[1] \in {Symbol("+"), Symbol("-"), Symbol("<"), Symbol("==")}

\* C6: evaluate returns NotReducible for the empty Expression whatever the
\* stored rules, and for every Symbol, Variable and non-empty Expression
\* whose head is not a grounded name it returns exactly query(atom).
C6_EvalForwardsToQuery ==
    call.op = "eval" =>
        LET a == call.args[1]
        IN  /\ a = Expression(<<>>) => ret = NotReducible
            /\ (\/ a.kind \in {"Symbol", "Variable"}
                \/ a.kind = "Expression" /\ Len(a.value) > 0
                     /\ ~HasGroundedHead(a))
               => ret = query(rules, a)

\* The empty Expression evaluated while a rule with the empty pattern is
\* stored.
C6_Witness ==
    /\ call.op = "eval"
    /\ call.args[1] = Expression(<<>>)
    /\ \E i \in 1..Len(rules) : rules[i].value[2] = Expression(<<>>)
    /\ query(rules, call.args[1]) = Symbol("0.40")
    /\ ret = NotReducible

\* C7: for a non-empty Expression whose head is the Symbol +, -, < or ==,
\* evaluate is the grounded function's result on the tail and the store is
\* not consulted, also when that result is NotReducible and a stored rule has
\* the same head.
C7_GroundedBeforeRules ==
    (call.op = "eval" /\ HasGroundedHead(call.args[1])) =>
        LET a == call.args[1]
        IN  /\ ret = grounded_functions(a.value[1].value, Tail(a.value))
            /\ ret = eval(<<>>, a)

\* A grounded call answered NotReducible although a stored rule matches it.
C7_Witness ==
    /\ call.op = "eval"
    /\ HasGroundedHead(call.args[1])
    /\ query(rules, call.args[1]) = Symbol("0.40")
    /\ ret = NotReducible

\* The texts among the arguments that are numeric.
NumericTextsC9 == {"2", "2.5"}

NonNumericC9(a) ==
    \/ a.kind \in {"Variable", "Expression"}
    \/ a.kind = "Symbol" /\ a.value \notin NumericTextsC9

\* C9: through evaluate, each grounded function returns NotReducible (and
\* does not throw) when the tail does not have exactly 2 elements and when
\* either argument is a non-numeric Symbol, a Variable or an Expression.
C9_GroundedNeverThrows ==
    (call.op = "eval" /\ HasGroundedHead(call.args[1])) =>
        LET args == Tail(call.args[1].value)
        IN  /\ ~IsRaise(ret)
            /\ Len(args) # 2 => ret = NotReducible
            /\ (Len(args) = 2 /\ \E i \in 1..2 : NonNumericC9(args[i]))
                  => ret = NotReducible

(***************************************************************************)
(* The four grounded functions on integer literals: a client about to      *)
(* evaluate one grounded call on a fresh interpreter, then the call.       *)
(***************************************************************************)
\* The integers -MaxInt..MaxInt are the operands.
MaxInt == 12

\* Integer literals with the integer each denotes.
IntLiterals ==
    {[text |-> ToString(n), val |-> n] : n \in -MaxInt..MaxInt}
      \cup {[text |-> "+2", val |-> 2], [text |-> "007", val |-> 7]}

ArithCalls ==
    {Call(o, <<Symbol(x.text), Symbol(y.text)>>) :
        o \in GroundedNames, x \in IntLiterals, y \in IntLiterals}

InitArith ==
    /\ rules = <<>>
    /\ bindings = NoBindings
    /\ call \in {[op |-> "pending", args |-> <<e>>] : e \in ArithCalls}
    /\ ret = None

EvalPending ==
    /\ call.op = "pending"
    /\ ret' = eval(rules, call.args[1])
    /\ call' = [op |-> "eval", args |-> call.args]
    /\ UNCHANGED <<rules, bindings>>

SpecArith == InitArith /\ [][EvalPending]_vars

ExpectedC8(o, x, y) ==
    CASE o = "+" -> Symbol(ToString(x + y))
      [] o = "-" -> Symbol(ToString(x - y))
      [] o = "<" -> IF x < y THEN TrueAtom ELSE FalseAtom
      [] o = "==" -> IF x = y THEN TrueAtom ELSE FalseAtom

\* C8: for Symbols a and b whose text is an integer literal, evaluate((+ a b))
\* and evaluate((- a b)) are the Symbols with the decimal text of a+b and a-b,
\* evaluate((< a b)) and evaluate((== a b)) are TrueAtom or FalseAtom as a<b
\* and a=b hold or not.
C8_IntegerArithmetic ==
    call.op = "eval" =>
        LET e == call.args[1].value
        IN  \A x, y \in IntLiterals :
                (e[2].value = x.text /\ e[3].value = y.text)
                => ret = ExpectedC8(e[1].value, x.val, y.val)

\* A difference of two two-digit operands, one of them negative.
C8_Witness ==
    /\ call.op = "eval"
    /\ call.args[1] = Call("-", <<Symbol("-12"), Symbol("12")>>)
    /\ ret = Symbol("-24")

(***************************************************************************)
(* unify on its own.                                                       *)
(***************************************************************************)
UnifyAtoms ==
    {Symbol("a"), Symbol("$x"), Variable("x"), Variable("y"),
     Expression(<<>>), Expression(<<Symbol("f"), Symbol("a")>>),
     Expression(<<Symbol("f"), Symbol("b")>>),
     Expression(<<Symbol("g"), Symbol("a")>>),
     Expression(<<Symbol("f"), Symbol("a"), Symbol("b")>>)}

\* The atoms handed in as success and failure results.
UnifyResults ==
    {<<Symbol("s"), Symbol("f")>>, <<Variable("x"), Expression(<<>>)>>}

UnifyCall ==
    \E arg1 \in UnifyAtoms, arg2 \in UnifyAtoms, r \in UnifyResults :
        Unify(arg1, arg2, r[1], r[2])

SpecUnify == Init /\ [][UnifyCall]_vars

C28_LengthsMustMatch ==
    call.op = "unify" =>
        LET a == call.args[1]
            b == call.args[2]
        IN  (/\ a.kind = "Expression" /\ b.kind = "Expression"
             /\ PyEq(head(a), head(b))
             /\ Len(a.value) # Len(b.value))
                => ret = call.args[4]

\* C29: unify does not unify two Variables together: for two distinct
\* Variables a and b, unify(a, b, s, f) returns f and the table holds no
\* binding from a to b.
C29_VariablesNotUnified ==
    call.op = "unify" =>
        LET a == call.args[1]
            b == call.args[2]
        IN  (a.kind = "Variable" /\ b.kind = "Variable" /\ a.value # b.value)
                => /\ ret = call.args[4]
                   /\ ~(a.value \in DOMAIN bindings /\ bindings[a.value] = b)

(***************************************************************************)
(* The application's rules under eval, on an interpreter whose table unify *)
(* calls have filled: the rule (= (priority $data) (FundingPriority        *)
(* $data)) queried with several arguments, $data bound and unbound.        *)
(***************************************************************************)
Priority(data) == Expression(<<Symbol("priority"), data>>)

\* Arguments of priority: the tuple determine_priority passes, a region, a
\* Symbol, the Variable of the rule, the empty Expression.
PriorityArgs ==
    {data_a_tuple, RegionA, Symbol("D"), Variable("data"), Expression(<<>>)}

RuleQueries ==
    AppQueries \cup {Priority(d) : d \in PriorityArgs}
      \cup {Symbol("priority")}

EvalRule == \E arg \in RuleQueries : Eval(arg)

UnifyData ==
    \E d \in PriorityArgs :
        Unify(Variable("data"), d, Symbol("s"), Symbol("f"))

NextRules == LoadKnowledge \/ EvalRule \/ UnifyData

SpecRules == Init /\ [][NextRules]_vars

\* C27: eval returns the body of the matched rule exactly as stored: over
\* every eval step on an atom with a matching rule and no grounded head, the
\* result is the stored body of the first matching rule, with no Variable of
\* it replaced from the query or from the table, and the table is unchanged.
\* With the application's rules stored, eval((RegionData RegionA)) is
\* RegionA's tuple and eval((priority D)) is (FundingPriority $data) for
\* every D.
C27_EvalReturnsStoredBody ==
    [][call'.op = "eval" =>
          LET p == call'.args[1]
              m == MatchingC1(p)
          IN  /\ bindings' = bindings
              /\ (/\ m # {}
                  /\ ~HasGroundedHead(p)
                  /\ p # Expression(<<>>))
                    => \E i \in m :
                          /\ \A j \in m : i <= j
                          /\ ret' = rules[i].value[3]
              /\ rules = AddAll(<<>>, AppAtoms) =>
                    /\ p = RegionDataOf(RegionA) => ret' = data_a_tuple
                    /\ \A d \in PriorityArgs :
                          p = Priority(d)
                             => ret' = Expression(<<FundingPriority,
                                                    Variable("data")>>)
      ]_vars

\* (priority RegionA) was evaluated while the table binds $data to RegionA:
\* the body came back with its Variable $data in place.
C27_Witness ==
    /\ call.op = "eval"
    /\ call.args = <<Priority(RegionA)>>
    /\ ret = Expression(<<FundingPriority, Variable("data")>>)
    /\ "$data" \in DOMAIN bindings
    /\ bindings["$data"] = RegionA

(***************************************************************************)
(* The engine as a whole: any sequence of the five operations.             *)
(***************************************************************************)
AnyAtoms ==
    {Rule(AllocationWeight("CRITICAL"), Symbol("0.40")),
     Rule(AllocationWeight("HIGH"), Symbol("0.30")),
     Rule(Symbol("A"), Symbol("0.30")),
     Symbol("=")}

AnyPatterns == {AllocationWeight("HIGH"), Symbol("A"), Symbol("B")}

AnyEvals == {AllocationWeight("HIGH"), Symbol("A"),
             Call("+", <<Symbol("1"), Symbol("2")>>)}

AnyUnifies ==
    {<<Variable("y"), Symbol("A"), Symbol("s"), Symbol("f")>>,
     <<Symbol("A"), Symbol("B"), Symbol("s"), Symbol("f")>>,
     <<Symbol("A"), Variable("y"), Symbol("s"), Symbol("f")>>}

AnyChains ==
    {<<Call("eval", <<Call("+", <<Symbol("1"), Symbol("2")>>)>>),
       Variable("x"),
       Call("eval", <<Call("+", <<Variable("x"), Symbol("1")>>)>>)>>,
     <<Symbol("B"), Variable("x"),
       Call("pair", <<Variable("x"), Variable("y")>>)>>,
     <<Call("eval", <<AllocationWeight("HIGH")>>), Variable("x"),
       Variable("x")>>,
     <<Symbol("A"), Variable("x"),
       Call("chain", <<Symbol("B"), Variable("z"),
                       Call("pair", <<Variable("x"), Variable("z")>>)>>)>>}

AddAtomAny == \E atom \in AnyAtoms : AddAtom(atom)

QueryAny == \E pattern \in AnyPatterns : Query(pattern)

EvalAny == \E arg \in AnyEvals : Eval(arg)

UnifyAny == \E u \in AnyUnifies : Unify(u[1], u[2], u[3], u[4])

ChainAny == \E c \in AnyChains : Chain(c[1], c[2], c[3])

Next == AddAtomAny \/ QueryAny \/ EvalAny \/ UnifyAny \/ ChainAny

Spec == Init /\ [][Next]_vars

IsPrefix(s, t) == Len(s) <= Len(t) /\ SubSeq(t, 1, Len(s)) = s

\* C5: the store is append-only: over every step of any sequence of add_atom,
\* query, eval, unify and chain calls the stored rule sequence before is a
\* prefix of the one after, an accepted add_atom appends exactly one rule at
\* the end and nothing else changes the store; so once a stored rule matches a
\* pattern p, no later add_atom changes the result of query(p).
C5_AppendOnly ==
    [][/\ IsPrefix(rules, rules')
       /\ (call'.op = "add_atom" /\ ret' = TRUE)
             => rules' = Append(rules, call'.args[1])
       /\ ~(call'.op = "add_atom" /\ ret' = TRUE) => rules' = rules
       /\ \A p \in AnyPatterns \cup AnyEvals :
             MatchingC1(p) # {} => query(rules', p) = query(rules, p)]_vars

\* A second rule matching (allocation_weight HIGH) was appended after a first
\* one with another body, and the query still answers with the first.
C5_Witness ==
    /\ call.op = "add_atom"
    /\ ret = TRUE
    /\ Len(rules) = 2
    /\ MatchingC1(AllocationWeight("HIGH")) = {1, 2}
    /\ rules[1].value[3] # rules[2].value[3]
    /\ call.args[1] = rules[2]
    /\ query(rules, AllocationWeight("HIGH")) = rules[1].value[3]

\* C21: eval has no side effects: over every eval step, whatever the store,
\* the binding table and the atom, the binding table and the stored rule
\* sequence are unchanged, so that evaluating the same atom again returns an
\* equal result: the result returned is the one eval gives in the state the
\* call leaves, and an eval that follows an eval of the same atom returns what
\* that one returned.
C21_EvalNoSideEffects ==
    [][call'.op = "eval" =>
          /\ bindings' = bindings
          /\ rules' = rules
          /\ ret' = eval(rules', call'.args[1])
          /\ (call.op = "eval" /\ call.args = call'.args) => ret' = ret]_vars

\* The bare Symbol A was evaluated on a store with rules, none for A, and a
\* table with bindings: NotReducible, and evaluating again gives the same.
C21_Witness ==
    /\ call.op = "eval"
    /\ call.args = <<Symbol("A")>>
    /\ ret = NotReducible
    /\ eval(rules, Symbol("A")) = NotReducible
    /\ Len(rules) > 0
    /\ DOMAIN bindings # {}

\* The names a unify with the arguments t may bind: that of a Variable first
\* argument.
UnifyNamesC23(t) ==
    IF Len(t) > 0 /\ t[1].kind = "Variable" THEN {t[1].value} ELSE {}

\* The names a call may bind: those of the Variables that are the first
\* argument of a unify (the call itself or the instruction of a chain
\* invocation) or the target of a chain invocation.
NamesC23(c) ==
    IF c.op = "unify"
    THEN UnifyNamesC23(c.args)
    ELSE IF c.op = "chain"
    THEN LET invs == ChainInvocations(rules, bindings, c.args[1], c.args[2],
                                      c.args[3], 1)
         IN  UNION {(IF invs[i].var.kind = "Variable"
                     THEN {invs[i].var.value} ELSE {})
                    \cup (IF /\ is_expression(invs[i].arg)
                             /\ PyEq(head(invs[i].arg), Symbol("unify"))
                          THEN UnifyNamesC23(tail(invs[i].arg)) ELSE {}) :
                       i \in 1..Len(invs)}
    ELSE {}

\* C23: the binding table is created empty with the interpreter and only
\* accumulates: over every step of any sequence of add_atom, query, eval,
\* unify and chain calls no bound name is lost, and every name that is new or
\* whose entry changed is the name of a Variable that was the first argument
\* of a unify or the target of a chain in that call.
C23_BindingsAccumulate ==
    /\ bindings = NoBindings
    /\ [][/\ DOMAIN bindings \subseteq DOMAIN bindings'
          /\ \A n \in DOMAIN bindings' :
                (n \notin DOMAIN bindings \/ bindings'[n] # bindings[n])
                   => n \in NamesC23(call')]_vars

\* After an earlier unify bound $y, a chain with a chain continuation bound
\* its own target $x and the nested target $z: three names, none lost.
C23_Witness ==
    /\ call.op = "chain"
    /\ is_expression(call.args[3])
    /\ PyEq(head(call.args[3]), Symbol("chain"))
    /\ ~IsRaise(ret)
    /\ DOMAIN bindings = {"$x", "$y", "$z"}
    /\ bindings["$y"] = Symbol("A")

\* C24: bindings leak across calls: over every chain step whose instruction
\* is a Symbol and whose continuation is an Expression, every child of the
\* continuation that is a Variable other than the target and was bound by an
\* earlier call is replaced by the atom that call bound it to; so the result
\* of chain(B, $x, (pair $x $y)) depends on the calls before it: (pair B A)
\* after unify($y, A, s, f), (pair B $y) while $y is unbound.
C24_BindingsLeak ==
    [][(/\ call'.op = "chain"
        /\ call'.args[1].kind = "Symbol"
        /\ call'.args[2].kind = "Variable"
        /\ is_expression(call'.args[3]))
          => LET target == call'.args[2]
                 cont == call'.args[3]
                 sub == call'.locals.substituted_result
             IN  /\ is_expression(sub)
                 /\ Len(sub.value) = Len(cont.value)
                 /\ \A i \in 1..Len(cont.value) :
                       (/\ cont.value[i].kind = "Variable"
                        /\ cont.value[i].value # target.value
                        /\ cont.value[i].value \in DOMAIN bindings)
                          => sub.value[i] = bindings[cont.value[i].value]
                 /\ call'.args =
                       <<Symbol("B"), Variable("x"),
                         Call("pair", <<Variable("x"), Variable("y")>>)>>
                       => ret' =
                            IF "$y" \in DOMAIN bindings
                            THEN Call("pair", <<Symbol("B"), bindings["$y"]>>)
                            ELSE Call("pair", <<Symbol("B"), Variable("y")>>)
      ]_vars

\* chain(B, $x, (pair $x $y)) returned (pair B A): the A is the binding an
\* earlier unify($y, A, s, f) left.
C24_Witness ==
    /\ call.op = "chain"
    /\ call.args = <<Symbol("B"), Variable("x"),
                     Call("pair", <<Variable("x"), Variable("y")>>)>>
    /\ ret = Call("pair", <<Symbol("B"), Symbol("A")>>)
    /\ bindings["$y"] = Symbol("A")

(***************************************************************************)
(* chain on its own: one interpreter over the empty store or over the      *)
(* application's knowledge, called with every kind of instruction, target  *)
(* and continuation.                                                       *)
(***************************************************************************)
Plus(a, b) == Call("+", <<a, b>>)

\* Instructions: eval and unify with too few, enough and too many tail
\* elements, the empty Expression, a Symbol, a Variable, other heads.
ChainInstrs ==
    {Call("eval", <<Plus(Symbol("1"), Symbol("2"))>>),
     Call("eval", <<AllocationWeight("HIGH")>>),
     Call("eval", <<Plus(Symbol("2"), Expression(<<>>))>>),
     Call("eval", <<>>),
     Call("eval", <<Symbol("A"), Symbol("B")>>),
     Call("unify", <<Variable("x"), Symbol("A"), Symbol("s"), Symbol("f")>>),
     Call("unify", <<Variable("y"), Symbol("A"), Symbol("s"), Symbol("f")>>),
     Call("unify", <<Symbol("A"), Symbol("B"), Symbol("s"), Symbol("f")>>),
     Call("unify", <<Variable("y"), Symbol("A"), Symbol("s")>>),
     Call("unify", <<Variable("y"), Symbol("A"), Symbol("s"), Symbol("f"),
                     Symbol("g")>>),
     Expression(<<>>),
     Symbol("A"),
     Variable("y"),
     Call("pair", <<Variable("x")>>),
     Call("chain", <<Symbol("A"), Variable("x"), Variable("k")>>),
     Expression(<<Variable("eval"), Symbol("A")>>)}

\* Continuations: a Variable, eval and chain with and without their
\* arguments, Variables bound and unbound inside an Expression, a Symbol with
\* the text of a Variable, the empty Expression.
ChainConts ==
    {Variable("x"),
     Variable("k"),
     Symbol("c"),
     Expression(<<>>),
     Call("pair", <<Variable("x"), Variable("y")>>),
     Call("f", <<Call("g", <<Variable("y"), Symbol("$x")>>), Variable("x")>>),
     Call("eval", <<Plus(Variable("x"), Symbol("1"))>>),
     Call("eval", <<>>),
     Call("chain", <<Symbol("B"), Variable("z"),
                     Call("pair", <<Variable("x"), Variable("z")>>)>>),
     Call("chain", <<Symbol("B"), Variable("z")>>),
     Expression(<<Variable("chain"), Symbol("B"), Variable("z"),
                  Variable("z")>>)}

\* Second arguments that are not Variables.
ChainBadTargets == {Symbol("$x"), Symbol("x"), Expression(<<>>)}

\* Every instruction with the target $x as continuation, every continuation
\* after the instruction A, the calls that bind $y and $k, a chain
\* continuation whose target is the outer target, bound to a Symbol and to a
\* Variable.
ChainCalls ==
    {<<i, Variable("x"), Variable("x")>> : i \in ChainInstrs}
      \cup {<<Symbol("A"), Variable("x"), c>> : c \in ChainConts}
      \cup {<<Call("pair", <<Variable("x")>>), Variable("y"), Variable("y")>>,
            <<Call("chain", <<Symbol("A"), Variable("x"), Variable("k")>>),
              Variable("k"), Variable("k")>>,
            <<Symbol("A"), Variable("x"),
              Call("chain", <<Symbol("B"), Variable("x"), Variable("x")>>)>>,
            <<Variable("y"), Variable("x"),
              Call("chain", <<Symbol("B"), Variable("x"), Variable("x")>>)>>,
            <<Call("eval", <<Plus(Symbol("1"), Symbol("2"))>>), Variable("x"),
              Call("eval", <<Plus(Variable("x"), Symbol("1"))>>)>>}

ChainBadCalls ==
    {<<Call("unify", <<Variable("y"), Symbol("A"), Symbol("s"), Symbol("f")>>),
       v, Variable("x")>> : v \in ChainBadTargets}
      \cup {<<Symbol("A"), Symbol("x"), Symbol("c")>>}

ChainCall == \E c \in ChainCalls : Chain(c[1], c[2], c[3])

\* The chain call of the self-test in BitePiperApp.run.
test_expr == Call("eval", <<Plus(Symbol("1"), Symbol("2"))>>)

test_continuation == Call("eval", <<Plus(Variable("x"), Symbol("1"))>>)

\* The system verification at the end of BitePiperApp.run, on the
\* application's own interpreter (which run has only called eval on): the
\* chain call, the eval of (allocation_weight CRITICAL) and the status check.
CoreLogicTest ==
    /\ call.op = "load_knowledge"
    /\ LET test_result ==
               chain(rules, bindings, test_expr, Variable("x"),
                     test_continuation, 1)
           test_weight == eval(rules, AllocationWeight("CRITICAL"))
       IN  /\ ret' = test_result.ret
           /\ bindings' = test_result.bindings
           /\ call' = [op |-> "core_logic_test",
                       args |-> <<test_expr, Variable("x"), test_continuation>>,
                       tests_passed |->
                           /\ ~IsRaise(test_result.ret)
                           /\ ~IsRaise(test_weight)
                           /\ AtomEq(test_result.ret, Symbol("3"))
                           /\ AtomEq(test_weight, Symbol("0.40"))]
    /\ UNCHANGED rules

ChainBadCall == \E c \in ChainBadCalls : Chain(c[1], c[2], c[3])

NextChain == LoadKnowledge \/ CoreLogicTest \/ ChainCall \/ ChainBadCall

SpecChain == Init /\ [][NextChain]_vars

\* unify applied to a tail t: the call of a four-parameter function, which
\* fails as a call when the elements are more than its parameters.
UnifyApplied(bs, t) ==
    IF Len(t) = 4
    THEN unify(bs, t[1], t[2], t[3], t[4])
    ELSE [ret |-> Raise("TypeError"), bindings |-> bs]

\* The result C11 gives step 1 for instruction i.
ExecC11(rs, bs, i) ==
    IF i.kind = "Expression" /\ Len(i.value) >= 2 /\ i.value[1] = Symbol("eval")
    THEN eval(rs, i.value[2])
    ELSE IF /\ i.kind = "Expression" /\ Len(i.value) >= 5
            /\ i.value[1] = Symbol("unify")
    THEN UnifyApplied(bs, Tail(i.value)).ret
    ELSE IF i = Expression(<<>>) THEN NotReducible
    ELSE i

\* C11: step 1 of chain(instruction, variable, continuation) computes
\* evaluate(tail[0]) for a non-empty Expression with head Symbol eval and at
\* least one tail element, unify applied to the tail elements for head Symbol
\* unify and at least four tail elements, NotReducible for the empty
\* Expression, and the instruction itself, unevaluated, in every other case.
C11_ChainStep1 ==
    [][(call'.op = "chain" /\ call'.args[2].kind = "Variable")
          => call'.locals.exec_result
               = ExecC11(rules, bindings, call'.args[1])]_vars

\* (eval) with no argument and unify with three tail elements came back
\* unevaluated from step 1.
C11_Witness ==
    /\ call.op = "chain"
    /\ call.args[1] \in {Call("eval", <<>>),
                         Call("unify", <<Variable("y"), Symbol("A"),
                                         Symbol("s")>>)}
    /\ call.locals.exec_result = call.args[1]
    /\ ret = call.args[1]

\* The table step 1 leaves: the one before the call, with the binding the
\* instruction's own unify has recorded.
TableAfterStep1(bs, i) ==
    IF /\ i.kind = "Expression" /\ Len(i.value) >= 5
       /\ i.value[1] = Symbol("unify")
    THEN UnifyApplied(bs, Tail(i.value)).bindings
    ELSE bs

IsChainExpression(a) ==
    a.kind = "Expression" /\ Len(a.value) > 0 /\ a.value[1] = Symbol("chain")

\* C12: step 2 of chain stores variable.name -> result of step 1 in the
\* binding table before the continuation is substituted, overwriting any
\* prior binding of that name, also one the instruction's own unify recorded
\* in step 1, and leaves every other entry of the table unchanged.
C12_ChainStep2 ==
    [][(/\ call'.op = "chain"
        /\ call'.args[2].kind = "Variable"
        /\ ~IsRaise(call'.locals.exec_result))
          => LET name == call'.args[2].value
                 r    == call'.locals.exec_result
                 t1   == TableAfterStep1(bindings, call'.args[1])
                 t2   == call'.locals.bindings
             IN  /\ DOMAIN t2 = DOMAIN t1 \cup {name}
                 /\ t2[name] = r
                 /\ \A n \in DOMAIN t1 \ {name} : t2[n] = t1[n]
                 /\ call'.args[3] = call'.args[2]
                       => call'.locals.substituted_result = r
                 /\ ~IsChainExpression(call'.locals.substituted_result)
                       => bindings' = t2]_vars

\* The target $x, bound to A by the instruction's own unify, holds the result
\* s of that unify, and the entry of $y is still there.
C12_Witness ==
    /\ call.op = "chain"
    /\ call.args[1] = Call("unify", <<Variable("x"), Symbol("A"), Symbol("s"),
                                      Symbol("f")>>)
    /\ call.args[2] = Variable("x")
    /\ call.locals.exec_result = Symbol("s")
    /\ "$y" \in DOMAIN bindings
    /\ bindings["$x"] = Symbol("s")
    /\ bindings = call.locals.bindings

\* out is the atom in rewritten by one simultaneous pass over the table t.
RECURSIVE RewrittenC13(_, _, _)
RewrittenC13(in, out, t) ==
    IF in.kind = "Variable"
    THEN IF in.value \in DOMAIN t THEN out = t[in.value] ELSE out = in
    ELSE IF in.kind = "Symbol"
    THEN out = in
    ELSE /\ out.kind = "Expression"
         /\ Len(out.value) = Len(in.value)
         /\ \A i \in 1..Len(in.value) :
               RewrittenC13(in.value[i], out.value[i], t)

\* C13: step 3 of chain rewrites the continuation by one simultaneous pass
\* over the binding table: every Variable whose name has an entry is replaced
\* by the bound atom exactly as stored (not itself rewritten), every Variable
\* without an entry and every Symbol is left unchanged, every Expression is
\* rebuilt with the same length and child order from its substituted children.
C13_ChainStep3 ==
    (/\ call.op = "chain"
     /\ call.args[2].kind = "Variable"
     /\ ~IsRaise(call.locals.exec_result))
    => RewrittenC13(call.args[3], call.locals.substituted_result,
                    call.locals.bindings)

\* $y is bound to (pair $x) and $x is bound too: (pair $x) was put in for $y
\* as stored, the Symbol "$x" stayed and the Variable $x was replaced.
C13_Witness ==
    /\ call.op = "chain"
    /\ call.args[3] = Call("f", <<Call("g", <<Variable("y"), Symbol("$x")>>),
                                  Variable("x")>>)
    /\ "$y" \in DOMAIN call.locals.bindings
    /\ call.locals.bindings["$y"] = Call("pair", <<Variable("x")>>)
    /\ call.locals.bindings["$x"] = Symbol("A")
    /\ call.locals.substituted_result
         = Call("f", <<Call("g", <<Call("pair", <<Variable("x")>>),
                                   Symbol("$x")>>), Symbol("A")>>)
    /\ ret = call.locals.substituted_result

\* evaluate of the first element of a tail t: taking the first element of
\* an empty tail fails (IndexError).
EvalFirst(rs, t) ==
    IF Len(t) = 0 THEN Raise("IndexError") ELSE eval(rs, t[1])

\* The recursive chain call on a tail t as the three new arguments, which
\* fails as a call when the elements are not three.
ChainApplied(rs, bs, t) ==
    IF Len(t) = 3
    THEN chain(rs, bs, t[1], t[2], t[3], 2)
    ELSE [ret |-> Raise("TypeError"), bindings |-> bs]

\* C14: step 4 of chain: if the substituted continuation is a non-empty
\* Expression whose head is Symbol eval, chain returns evaluate of its first
\* tail element; if its head is Symbol chain, the recursive chain call on its
\* tail elements as the three new arguments; in every other case (Symbol,
\* Variable, empty Expression, Expression with any other head) the
\* substituted continuation unchanged, without evaluating it.
C14_ChainStep4 ==
    (/\ call.op = "chain"
     /\ call.args[2].kind = "Variable"
     /\ ~IsRaise(call.locals.exec_result))
    => LET sub == call.locals.substituted_result
       IN  IF /\ sub.kind = "Expression" /\ Len(sub.value) > 0
              /\ sub.value[1] = Symbol("eval")
           THEN ret = EvalFirst(rules, Tail(sub.value))
           ELSE IF IsChainExpression(sub)
           THEN LET r == ChainApplied(rules, call.locals.bindings,
                                      Tail(sub.value))
                IN  ret = r.ret /\ bindings = r.bindings
           ELSE ret = sub

\* A chain continuation was run as the nested call chain(B, $z, (pair A $z)),
\* A being the atom put in for $x.
C14_Witness ==
    /\ call.op = "chain"
    /\ call.args[1] = Symbol("A")
    /\ call.args[3] = Call("chain", <<Symbol("B"), Variable("z"),
                         Call("pair", <<Variable("x"), Variable("z")>>)>>)
    /\ call.locals.substituted_result
         = Call("chain", <<Symbol("B"), Variable("z"),
                           Call("pair", <<Symbol("A"), Variable("z")>>)>>)
    /\ ret = Call("pair", <<Symbol("A"), Symbol("B")>>)
    /\ bindings["$z"] = Symbol("B")

\* C15: on a fresh interpreter chain((eval (+ 1 2)), $x, (eval (+ $x 1)))
\* returns Symbol "3", the value the application's self-test compares the
\* chain result against to report that all systems are operational.
C15_SelfTestChain ==
    /\ (/\ call.op \in {"chain", "core_logic_test"}
        /\ call.args = <<test_expr, Variable("x"), test_continuation>>
        /\ DOMAIN bindings = {"$x"})
       => ret = Symbol("3")
    /\ call.op = "core_logic_test" => call.tests_passed

IsAtom(x) == x.kind \in {"Symbol", "Variable", "Expression"}

\* C16: chain called with a second argument that is not a Variable fails
\* immediately with a contract error (it returns neither NotReducible nor any
\* other atom), before executing the instruction or writing anything: the
\* binding table and the knowledge base are as they were before the call.
C16_ChainBadTarget ==
    [][(call'.op = "chain" /\ call'.args[2].kind # "Variable")
          => /\ IsRaise(ret')
             /\ ~IsAtom(ret')
             /\ call'.locals.exec_result = None
             /\ bindings' = bindings
             /\ rules' = rules]_vars

\* chain with the Symbol "$x" as target and a unify instruction that would
\* bind $y: the call raised and $y has no entry.
C16_Witness ==
    /\ call.op = "chain"
    /\ call.args[1] = Call("unify", <<Variable("y"), Symbol("A"), Symbol("s"),
                                      Symbol("f")>>)
    /\ call.args[2] = Symbol("$x")
    /\ ret = Raise("TypeError")
    /\ "$y" \notin DOMAIN bindings
    /\ Len(rules) > 0

\* C17: evaluate, unify and chain are total over well-formed atoms: for every
\* knowledge base, binding table and atom arguments (a Variable as chain's
\* target) each call returns an atom and never raises; malformed instructions
\* and continuations are reported through NotReducible or returned
\* unevaluated.
C17_Total ==
    (/\ call.op \in {"eval", "unify", "chain"}
     /\ call.op = "chain" => call.args[2].kind = "Variable")
    => IsAtom(ret)

\* C20: every call of evaluate, unify and chain terminates: the recursion of
\* chain's step 4 into a chain continuation reaches a continuation that is no
\* chain after finitely many steps, so no call ends by exhausting the stack.
C20_Terminates ==
    call.op \in {"eval", "unify", "chain"} => ret # Raise("RecursionError")

\* A chain call whose continuation is (chain I $y K) with $y a Variable that
\* has a binding when the outer call substitutes, the instruction not having
\* raised.
NestedTargetBoundC26 ==
    /\ call.op = "chain"
    /\ call.args[2].kind = "Variable"
    /\ ~IsRaise(call.locals.exec_result)
    /\ is_expression(call.args[3])
    /\ Len(call.args[3].value) = 4
    /\ call.args[3].value[1] = Symbol("chain")
    /\ call.args[3].value[3].kind = "Variable"
    /\ call.args[3].value[3].value \in DOMAIN call.locals.bindings

CompareAtoms ==
    {Symbol("a"), Symbol("x"), Symbol("$x"), Variable("x"), Variable("y"),
     Expression(<<>>), Expression(<<Symbol("$x")>>),
     Expression(<<Variable("x")>>),
     Expression(<<Symbol("f"), Symbol("a")>>),
     Expression(<<Symbol("f"), Symbol("a"), Symbol("a")>>),
     Expression(<<Symbol("a"), Symbol("f")>>)}

InitAtoms ==
    /\ rules = <<>>
    /\ bindings = NoBindings
    /\ call \in {[op |-> "pending", args |-> <<a, b>>] :
                    a \in CompareAtoms, b \in CompareAtoms}
    /\ ret = None

\* a == b, hash(a) and hash(b).
Compare ==
    /\ call.op = "pending"
    /\ ret' = [kind |-> "Comparison",
               eq |-> AtomEq(call.args[1], call.args[2]),
               hash_a |-> AtomHash(call.args[1]),
               hash_b |-> AtomHash(call.args[2])]
    /\ call' = [op |-> "compare", args |-> call.args]
    /\ UNCHANGED <<rules, bindings>>

SpecAtoms == InitAtoms /\ [][Compare]_vars

\* Same variant and structurally equal payload: for Expressions the same
\* length and pairwise equal children in the same order.
RECURSIVE SameAtomC18(_, _)
SameAtomC18(a, b) ==
    /\ a.kind = b.kind
    /\ IF a.kind = "Expression"
       THEN /\ Len(a.value) = Len(b.value)
            /\ \A i \in 1..Len(a.value) : SameAtomC18(a.value[i], b.value[i])
       ELSE a.value = b.value

\* C18: for all atoms a and b, a == b holds iff a and b are the same variant
\* and their payloads are structurally equal; in particular a Symbol is never
\* equal to a Variable, whatever their names.
C18_EqualitySameVariant ==
    call.op = "compare" =>
        /\ ret.eq <=> SameAtomC18(call.args[1], call.args[2])
        /\ (call.args[1].kind = "Symbol" /\ call.args[2].kind = "Variable")
              => ~ret.eq

\* C19: hashing is consistent with equality: for all atoms a and b, if a == b
\* then hash(a) = hash(b), the hash being computed from the pair (variant
\* name, payload).
C19_HashConsistent ==
    (call.op = "compare" /\ ret.eq) => ret.hash_a = ret.hash_b

(***************************************************************************)
(* chain step by step.  Each thread of the client makes chain calls on the *)
(* one interpreter; a call is a frame with its position pc in chain, the   *)
(* arguments of the invocation it is in (args), its nesting depth and its  *)
(* locals.  call.frames holds the frame of each thread and ret what each   *)
(* thread's call returned or raised.  A frame also records the arguments   *)
(* of the thread's call (chain), the table that call found on entry        *)
(* (start) and whether no other thread has taken a step since (alone).     *)
(* The recursive call of step 4 is a tail call, so a thread's frame is     *)
(* replaced by the callee's, one level deeper.                             *)
(***************************************************************************)
\* The frame limit of the Python runtime: the nesting depth of chain beyond
\* which a call raises RecursionError.
FrameLimit == 1000

IdleFrame ==
    [pc |-> "idle", chain |-> <<>>, args |-> <<>>, depth |-> 0,
     exec_result |-> None, substituted_result |-> None,
     start |-> NoBindings, alone |-> TRUE]

InitFrames(threads) ==
    /\ rules = <<>>
    /\ bindings = NoBindings
    /\ call = [op |-> "threads", frames |-> [t \in threads |-> IdleFrame]]
    /\ ret = [t \in threads |-> None]

\* Thread t moves to the frame f: every other thread that is inside a call is
\* no longer alone.
FramesAfter(t, f) ==
    [call EXCEPT !.frames =
        [u \in DOMAIN call.frames |->
            IF u = t THEN f
            ELSE IF call.frames[u].pc \in {"idle", "done"}
            THEN call.frames[u]
            ELSE [call.frames[u] EXCEPT !.alone = FALSE]]]

\* Thread t's call ends with the outcome r.
Return(t, r) ==
    /\ call' = FramesAfter(t, [call.frames[t] EXCEPT !.pc = "done"])
    /\ ret' = [ret EXCEPT ![t] = r]

\* Entry of chain at depth d on the frame f: RecursionError beyond the frame
\* limit, the test of the target, then on to step 1.
Enter(t, f, args, d) ==
    IF d > FrameLimit
    THEN /\ call' = FramesAfter(t, [f EXCEPT !.pc = "done"])
         /\ ret' = [ret EXCEPT ![t] = Raise("RecursionError")]
    ELSE IF ~IsVariable(args[2])
    THEN /\ call' = FramesAfter(t, [f EXCEPT !.pc = "done", !.args = args,
                                             !.depth = d])
         /\ ret' = [ret EXCEPT ![t] = Raise("TypeError")]
    ELSE /\ call' = FramesAfter(t, [f EXCEPT !.pc = "execute",
                                             !.args = args, !.depth = d,
                                             !.exec_result = None,
                                             !.substituted_result = None])
         /\ UNCHANGED ret

\* Thread t calls chain(c[1], c[2], c[3]).
ChainEnter(t, c) ==
    /\ call.frames[t].pc = "idle"
    /\ Enter(t, [IdleFrame EXCEPT !.chain = c, !.start = bindings], c, 1)
    /\ UNCHANGED <<rules, bindings>>

\* Step 1: execute the instruction.
ChainExecute(t) ==
    /\ call.frames[t].pc = "execute"
    /\ \E exec \in {ChainExec(rules, bindings, call.frames[t].args[1])} :
          /\ bindings' = exec.bindings
          /\ IF IsRaise(exec.ret)
             THEN Return(t, exec.ret)
             ELSE /\ call' = FramesAfter(t, [call.frames[t] EXCEPT
                                                !.pc = "bind",
                                                !.exec_result = exec.ret])
                  /\ UNCHANGED ret
    /\ UNCHANGED rules

\* A faulty step 2: a name that is already bound keeps its binding.
ChainBindTarget_KeepPrior(t) ==
    /\ call.frames[t].pc = "bind"
    /\ bindings' = ChainBind_KeepPrior(bindings, call.frames[t].args[2],
                                       call.frames[t].exec_result)
    /\ call' = FramesAfter(t, [call.frames[t] EXCEPT !.pc = "substitute"])
    /\ UNCHANGED <<rules, ret>>

\* Step 2: bind the target in the shared table.
ChainBindTarget(t) ==
    /\ call.frames[t].pc = "bind"
    /\ bindings' = ChainBind(bindings, call.frames[t].args[2],
                             call.frames[t].exec_result)
    /\ call' = FramesAfter(t, [call.frames[t] EXCEPT !.pc = "substitute"])
    /\ UNCHANGED <<rules, ret>>

\* Step 3: substitute the table as it is now into the continuation.
ChainSubstitute(t) ==
    /\ call.frames[t].pc = "substitute"
    /\ call' = FramesAfter(t, [call.frames[t] EXCEPT
                                  !.pc = "tail",
                                  !.substituted_result =
                                      substitute(call.frames[t].args[3],
                                                 bindings)])
    /\ UNCHANGED <<rules, bindings, ret>>

\* Step 4: evaluate an eval continuation, re-enter chain on a chain
\* continuation, return anything else.
ChainTailEvaluate(t) ==
    /\ call.frames[t].pc = "tail"
    /\ LET sub == call.frames[t].substituted_result
       IN  IF is_expression(sub) /\ PyEq(head(sub), Symbol("eval"))
           THEN Return(t, IF Len(tail(sub)) = 0
                          THEN Raise("IndexError")
                          ELSE eval(rules, tail(sub)[1]))
           ELSE IF is_expression(sub) /\ PyEq(head(sub), Symbol("chain"))
           THEN IF Len(tail(sub)) # 3
                THEN Return(t, Raise("TypeError"))
                ELSE Enter(t, call.frames[t], tail(sub),
                           call.frames[t].depth + 1)
           ELSE Return(t, sub)
    /\ UNCHANGED <<rules, bindings>>

\* Two threads, each making one call: the two calls of the same target, a
\* call that binds another name through unify, a chain continuation and a
\* target that is no Variable.
ConcThreads == {1, 2}

ConcCalls ==
    {<<Symbol("A"), Variable("x"), Variable("x")>>,
     <<Symbol("B"), Variable("x"), Variable("x")>>,
     <<Call("unify", <<Variable("x"), Symbol("C"), Symbol("s"), Symbol("f")>>),
       Variable("y"), Call("pair", <<Variable("x"), Variable("y")>>)>>,
     <<Symbol("A"), Variable("x"),
       Call("chain", <<Symbol("B"), Variable("z"),
                       Call("pair", <<Variable("x"), Variable("z")>>)>>)>>,
     <<Symbol("A"), Symbol("x"), Variable("x")>>}

InitConc == InitFrames(ConcThreads)

ConcEnter == \E t \in ConcThreads, c \in ConcCalls : ChainEnter(t, c)

ConcExecute == \E t \in ConcThreads : ChainExecute(t)

ConcBindTarget == \E t \in ConcThreads : ChainBindTarget(t)

ConcSubstitute == \E t \in ConcThreads : ChainSubstitute(t)

ConcTailEvaluate == \E t \in ConcThreads : ChainTailEvaluate(t)

NextConc ==
    \/ ConcEnter
    \/ ConcExecute
    \/ ConcBindTarget
    \/ ConcSubstitute
    \/ ConcTailEvaluate

SpecConc == InitConc /\ [][NextConc]_vars

\* C25: concurrent chain calls on one interpreter are unsafe.  A call that
\* ran alone (no other thread took a step between its entry and its return,
\* which is the case in both serial orders) returns what chain returns on the
\* table it found; of chain(A, $x, $x) and chain(B, $x, $x) the first returns
\* A in both serial orders, and when their steps interleave it returns A or B,
\* B being the other call's binding.
C25_ConcurrentChainUnsafe ==
    \A t \in ConcThreads :
        call.frames[t].pc = "done" =>
            LET f == call.frames[t]
                u == CHOOSE v \in ConcThreads : v # t
            IN  /\ f.alone =>
                      ret[t] = chain(rules, f.start, f.chain[1], f.chain[2],
                                     f.chain[3], 1).ret
                /\ (/\ f.chain = <<Symbol("A"), Variable("x"), Variable("x")>>
                    /\ call.frames[u].chain =
                          <<Symbol("B"), Variable("x"), Variable("x")>>)
                      => /\ ret[t] \in {Symbol("A"), Symbol("B")}
                         /\ f.alone => ret[t] = Symbol("A")

\* Thread 1 called chain(A, $x, $x), thread 2 chain(B, $x, $x), and thread 1
\* returned B.
C25_Witness ==
    /\ call.frames[1].chain = <<Symbol("A"), Variable("x"), Variable("x")>>
    /\ call.frames[2].chain = <<Symbol("B"), Variable("x"), Variable("x")>>
    /\ call.frames[1].pc = "done"
    /\ ret[1] = Symbol("B")
    /\ ~call.frames[1].alone

(***************************************************************************)
(* The nesting depth of chain: one thread, one call at a time, among them  *)
(* the call whose continuation becomes the call itself.                    *)
(***************************************************************************)
\* MAX_CHAIN_DEPTH of config.py.
MAX_CHAIN_DEPTH == 100

DepthCalls ==
    {<<Call("chain", <<Symbol("A"), Variable("x"), Variable("k")>>),
       Variable("k"), Variable("k")>>,
     <<Symbol("A"), Variable("x"),
       Call("chain", <<Symbol("B"), Variable("z"),
                       Call("pair", <<Variable("x"), Variable("z")>>)>>)>>,
     <<test_expr, Variable("x"), test_continuation>>,
     <<Symbol("A"), Variable("x"), Variable("x")>>,
     <<Symbol("A"), Symbol("x"), Variable("x")>>}

InitDepth == InitFrames({1})

DepthEnter == \E c \in DepthCalls : ChainEnter(1, c)

DepthExecute == ChainExecute(1)

DepthBindTarget == ChainBindTarget(1)

DepthSubstitute == ChainSubstitute(1)

DepthTailEvaluate == ChainTailEvaluate(1)

NextDepth ==
    \/ DepthEnter
    \/ DepthExecute
    \/ DepthBindTarget
    \/ DepthSubstitute
    \/ DepthTailEvaluate

SpecDepth == InitDepth /\ [][NextDepth]_vars

\* C30: the nesting depth of recursive chain calls never exceeds
\* MAX_CHAIN_DEPTH, and a chain that would go deeper returns NotReducible
\* instead of recursing further: no frame is deeper than MAX_CHAIN_DEPTH and
\* no call ends in RecursionError.
C30_DepthBounded ==
    \A t \in DOMAIN call.frames :
        LET f == call.frames[t]
        IN  /\ f.depth <= MAX_CHAIN_DEPTH
            /\ ret[t] # Raise("RecursionError")

====
